---- MODULE Spec2Model ----
(***************************************************************************)
(* Model of the audit pipeline of frontend/lib/audit.ts: normalisation,    *)
(* grouping, deterministic Markdown rendering, validation of the text of   *)
(* the candidate generator, and the asynchronous entry point runAudit.     *)
(*                                                                         *)
(* Text.  A JavaScript string is a sequence of lines (the pieces between   *)
(* "\n"), and a line is a sequence of tokens.  The characters the code's   *)
(* regular expressions look at ("#", " ", "[", "]", "(", ")", ":") are     *)
(* tokens of their own; every other token is a run of characters that      *)
(* contains none of them at a place a pattern could see.  The empty string *)
(* is one line with no token.  A back quote of the source's literals is    *)
(* written ' in the tokens here, and its check-mark emoji "U+2705".        *)
(***************************************************************************)
EXTENDS Integers, Sequences, FiniteSets, TLC

\* ------------------------------------------------------------------ bounds
MaxFindings == 2
MaxCandLines == 3
MaxWait == 2

\* ------------------------------------------------------------- text helpers
EmptyStr == << <<>> >>

RECURSIVE JoinLines(_)
\* Array.prototype.join("\n") of strings: the lines of the parts in order;
\* the join of no part is the empty string
JoinLines(parts) ==
  IF parts = <<>> THEN EmptyStr
  ELSE IF Len(parts) = 1 THEN Head(parts)
  ELSE Head(parts) \o JoinLines(Tail(parts))

RECURSIVE SelectIdx(_, _, _)
\* the indices i of s, ascending from i, with P[i]
SelectIdx(n, i, P) ==
  IF i > n THEN <<>>
  ELSE (IF P[i] THEN <<i>> ELSE <<>>) \o SelectIdx(n, i + 1, P)

Digit == <<"1", "2", "3", "4", "5", "6", "7", "8", "9">>

RECURSIVE NumStr(_)
\* decimal rendering of a natural number by template interpolation
NumStr(n) ==
  IF n = 0 THEN <<"0">>
  ELSE IF n < 10 THEN <<Digit[n]>>
  ELSE NumStr(n \div 10) \o (IF n % 10 = 0 THEN <<"0">> ELSE <<Digit[n % 10]>>)

\* tokens made only of word characters (\w)
WordTokens == {"callContract", "yourAddress", "s_variable", "doSomething", "x"}
\* tokens that are white space (\s)
SpaceTokens == {" "}

\* String.prototype.toLowerCase on a token
LowerTok(t) ==
  CASE t = "State variables written after the call" -> "state variables written after the call"
    [] t = "Delegatecall" -> "delegatecall"
    [] t = "Integer Overflow" -> "integer overflow"
    [] t = "is not in mixedCase" -> "is not in mixedcase"
    [] t = "A state variable is written after an external call." ->
         "a state variable is written after an external call."
    [] OTHER -> t

toLowerCase(s) == [i \in 1..Len(s) |-> LowerTok(s[i])]

\* the phrases a lower-cased token contains, among those the code looks for
PhrasesOf(t) ==
  CASE t = "state variables written after the call" -> {"state variables written after the call"}
    [] t = "delegatecall" -> {"delegatecall"}
    [] t = ".call(" -> {".call("}
    [] t = " call(" -> {" call("}
    [] t = "is not in mixedcase" -> {"not in mixedcase"}
    [] t = "lacks a zero-check on" -> {"lacks a zero-check", "zero-check"}
    [] t = "zero-check" -> {"zero-check"}
    [] t = "integer overflow" -> {"integer overflow"}
    [] t = "underflow" -> {"underflow"}
    [] t = "tx.origin" -> {"tx.origin"}
    [] OTHER -> {}

\* String.prototype.includes(phrase) on a one-line string of tokens
includes(s, phrase) == \E i \in 1..Len(s) : phrase \in PhrasesOf(s[i])

\* ------------------------------------------------ helpers: grouping & locations
\* a line number is <<n>>, the value null is <<>>
null == <<>>

\* the key `${l.file}:${l.line ?? ""}:${l.element}` of a location
LocKey(l) ==
  l.file \o <<":">> \o (IF l.line = null THEN <<>> ELSE NumStr(l.line[1])) \o <<":">> \o l.element

RECURSIVE FilterUnseen(_, _)
\* the filter of uniqueLocations with its Set of seen keys
FilterUnseen(locs, seen) ==
  IF locs = <<>> THEN <<>>
  ELSE LET k == LocKey(Head(locs)) IN
       IF k \in seen THEN FilterUnseen(Tail(locs), seen)
       ELSE <<Head(locs)>> \o FilterUnseen(Tail(locs), seen \cup {k})

\* the filter keeping the last of equal locations instead of the first
uniqueLocations_keepLast(locs) ==
  LET rev(q) == [i \in 1..Len(q) |-> q[Len(q) + 1 - i]]
  IN rev(FilterUnseen(rev(locs), {}))

uniqueLocations(locs) == FilterUnseen(locs, {})

\* locs.find((l) => l.element)?.element, as a list of at most one string
FirstElement(locs) ==
  LET idx == SelectIdx(Len(locs), 1, [i \in 1..Len(locs) |-> locs[i].element # <<>>])
  IN IF idx = <<>> THEN <<>> ELSE <<locs[idx[1]].element>>

\* locs.find((l) => l.line != null)?.line ?? null
FirstLine(locs) ==
  LET idx == SelectIdx(Len(locs), 1, [i \in 1..Len(locs) |-> locs[i].line # null])
  IN IF idx = <<>> THEN null ELSE locs[idx[1]].line

\* Map.get on an insertion-ordered list of [key, value] entries: the index or 0
MapIndex(entries, key) ==
  LET idx == SelectIdx(Len(entries), 1, [i \in 1..Len(entries) |-> entries[i].key = key])
  IN IF idx = <<>> THEN 0 ELSE idx[1]

RECURSIVE GroupLoop_firstLocation(_, _, _)
\* the loop keyed by the element name of the first location, empty or not
GroupLoop_firstLocation(items, grouped, passthrough) ==
  IF items = <<>> THEN [grouped |-> grouped, passthrough |-> passthrough]
  ELSE LET it == Head(items) IN
       IF it.check = "missing-zero-check"
       THEN LET key == <<it.check, "@@">> \o
                         (IF it.locations = <<>> THEN <<>> ELSE it.locations[1].element)
                at == MapIndex(grouped, key)
            IN IF at # 0
               THEN GroupLoop_firstLocation(Tail(items),
                      [grouped EXCEPT ![at].value.locations =
                          uniqueLocations(grouped[at].value.locations \o it.locations)],
                      passthrough)
               ELSE GroupLoop_firstLocation(Tail(items),
                      Append(grouped,
                        [key |-> key,
                         value |-> [it EXCEPT !.locations = uniqueLocations(it.locations)]]),
                      passthrough)
       ELSE GroupLoop_firstLocation(Tail(items), grouped, Append(passthrough, it))

RECURSIVE GroupLoop_concat(_, _, _)
\* the loop merging by plain concatenation, without uniqueLocations
GroupLoop_concat(items, grouped, passthrough) ==
  IF items = <<>> THEN [grouped |-> grouped, passthrough |-> passthrough]
  ELSE LET it == Head(items) IN
       IF it.check = "missing-zero-check"
       THEN LET fe == FirstElement(it.locations)
                key == <<it.check, "@@">> \o (IF fe = <<>> THEN <<>> ELSE fe[1])
                at == MapIndex(grouped, key)
            IN IF at # 0
               THEN GroupLoop_concat(Tail(items),
                      [grouped EXCEPT ![at].value.locations = grouped[at].value.locations \o it.locations],
                      passthrough)
               ELSE GroupLoop_concat(Tail(items),
                      Append(grouped,
                        [key |-> key,
                         value |-> [it EXCEPT !.locations = uniqueLocations(it.locations)]]),
                      passthrough)
       ELSE GroupLoop_concat(Tail(items), grouped, Append(passthrough, it))

RECURSIVE GroupLoop_lastWins(_, _, _)
\* the loop keeping the fields of the last instance of a group
GroupLoop_lastWins(items, grouped, passthrough) ==
  IF items = <<>> THEN [grouped |-> grouped, passthrough |-> passthrough]
  ELSE LET it == Head(items) IN
       IF it.check = "missing-zero-check"
       THEN LET fe == FirstElement(it.locations)
                key == <<it.check, "@@">> \o (IF fe = <<>> THEN <<>> ELSE fe[1])
                at == MapIndex(grouped, key)
            IN IF at # 0
               THEN GroupLoop_lastWins(Tail(items),
                      [grouped EXCEPT ![at].value =
                         [it EXCEPT !.locations =
                            uniqueLocations(grouped[at].value.locations \o it.locations)]],
                      passthrough)
               ELSE GroupLoop_lastWins(Tail(items),
                      Append(grouped,
                        [key |-> key,
                         value |-> [it EXCEPT !.locations = uniqueLocations(it.locations)]]),
                      passthrough)
       ELSE GroupLoop_lastWins(Tail(items), grouped, Append(passthrough, it))

RECURSIVE GroupLoop(_, _, _)
\* the for loop of groupByCheckAndElement over the remaining items
GroupLoop(items, grouped, passthrough) ==
  IF items = <<>> THEN [grouped |-> grouped, passthrough |-> passthrough]
  ELSE LET it == Head(items) IN
       IF it.check = "missing-zero-check"
       THEN LET fe == FirstElement(it.locations)
                elem == IF fe = <<>> THEN <<>> ELSE fe[1]
                key == <<it.check, "@@">> \o elem
                at == MapIndex(grouped, key)
            IN IF at # 0
               THEN GroupLoop(Tail(items),
                      [grouped EXCEPT ![at].value.locations =
                          uniqueLocations(grouped[at].value.locations \o it.locations)],
                      passthrough)
               ELSE GroupLoop(Tail(items),
                      Append(grouped,
                        [key |-> key,
                         value |-> [it EXCEPT !.locations = uniqueLocations(it.locations)]]),
                      passthrough)
       ELSE GroupLoop(Tail(items), grouped, Append(passthrough, it))

\* the argument after a loop that stores the item itself in the Map (no
\* clone): the assignment to existing.locations then lands in the first
\* item of each group
InputAfterGroup_aliased(items) ==
  LET r == GroupLoop(items, <<>>, <<>>)
      keyOf(it) == <<it.check, "@@">> \o
                     (IF FirstElement(it.locations) = <<>> THEN <<>> ELSE FirstElement(it.locations)[1])
  IN [i \in 1..Len(items) |->
        IF items[i].check = "missing-zero-check"
           /\ \A j \in 1..(i - 1) :
                 ~(items[j].check = "missing-zero-check" /\ keyOf(items[j]) = keyOf(items[i]))
        THEN [items[i] EXCEPT !.locations = r.grouped[MapIndex(r.grouped, keyOf(items[i]))].value.locations]
        ELSE items[i]]

\* the argument of groupByCheckAndElement once it has returned: the Map
\* holds a clone ({...it} with a new locations array) of the first item of a
\* group, the later assignment to existing.locations goes to that clone, and
\* the other items are pushed as they are, so no item of the argument changes
InputAfterGroup(items) == items

groupByCheckAndElement(items) ==
  LET r == GroupLoop(items, <<>>, <<>>)
  IN r.passthrough \o [i \in 1..Len(r.grouped) |-> r.grouped[i].value]

\* one row `  - ${l.file}${linePart}${elemPart}` of formatLocations
LocRow(l) ==
  <<"  - ">> \o l.file
    \o (IF l.line # null THEN <<":">> \o NumStr(l.line[1]) ELSE <<>>)
    \o (IF l.element # <<>> THEN <<" (element: ">> \o l.element \o <<")">> ELSE <<>>)

RECURSIVE FormatUnseen(_, _)
FormatUnseen(locs, seen) ==
  IF locs = <<>> THEN <<>>
  ELSE LET k == LocKey(Head(locs)) IN
       IF k \in seen THEN FormatUnseen(Tail(locs), seen)
       ELSE <<LocRow(Head(locs))>> \o FormatUnseen(Tail(locs), seen \cup {k})

\* the rows (lines) of the bulleted location list
formatLocations(locs) == FormatUnseen(locs, {})

\* ----------------------------------------------------------- SWC enrichment
\* the entries of the swc-registry package the pipeline asks for
SWCIds == {"SWC-101", "SWC-104", "SWC-107", "SWC-112", "SWC-115"}

SWCTitle(id) ==
  CASE id = "SWC-101" -> "Integer Overflow and Underflow"
    [] id = "SWC-104" -> "Unchecked Call Return Value"
    [] id = "SWC-107" -> "Reentrancy"
    [] id = "SWC-112" -> "Delegatecall to Untrusted Callee"
    [] id = "SWC-115" -> "Authorization through tx.origin"

\* getSWCEntry: the registry entry, as a list of at most one entry
getSWCEntry(id) ==
  IF id \in SWCIds
  THEN <<[Id |-> id, Title |-> SWCTitle(id),
          Remediation |-> <<"remediation of ", id>>, References |-> <<>>]>>
  ELSE <<>>

getReferences(entry) == entry.References

enrichWithSWCByDescription(description) ==
  IF description = <<>> THEN <<>>
  ELSE LET lower == toLowerCase(description) IN
       IF includes(lower, "integer overflow") \/ includes(lower, "underflow")
       THEN getSWCEntry("SWC-101")
       ELSE IF includes(lower, "tx.origin") THEN getSWCEntry("SWC-115")
       ELSE <<>>

\* the switch without the case of missing-zero-check, which then takes the
\* default branch
enrichWithSWC_fallthrough(check, description) ==
  CASE check = "controlled-delegatecall" -> getSWCEntry("SWC-112")
    [] check \in {"reentrancy-no-eth", "reentrancy-benign"} -> getSWCEntry("SWC-107")
    [] check = "low-level-calls" -> getSWCEntry("SWC-104")
    [] OTHER -> enrichWithSWCByDescription(description)

enrichWithSWC(check, description) ==
  CASE check = "controlled-delegatecall" -> getSWCEntry("SWC-112")
    [] check \in {"reentrancy-no-eth", "reentrancy-benign"} -> getSWCEntry("SWC-107")
    [] check = "low-level-calls" -> getSWCEntry("SWC-104")
    [] check = "missing-zero-check" -> <<>>
    [] OTHER -> enrichWithSWCByDescription(description)

\* the facts looked for in the description as written, not lower-cased
deriveFacts_caseSensitive(desc) ==
  [writesAfterCall |-> includes(desc, "state variables written after the call"),
   mentionsDelegatecall |-> includes(desc, "delegatecall"),
   mentionsLowLevelCall |-> includes(desc, " call(") \/ includes(desc, ".call("),
   exactStylePhrase |-> includes(desc, "not in mixedcase"),
   mentionsZeroCheck |-> includes(desc, "lacks a zero-check") \/ includes(desc, "zero-check")]

deriveFacts(desc) ==
  LET d == toLowerCase(desc) IN
  [writesAfterCall |-> includes(d, "state variables written after the call"),
   mentionsDelegatecall |-> includes(d, "delegatecall"),
   mentionsLowLevelCall |-> includes(d, " call(") \/ includes(d, ".call("),
   exactStylePhrase |-> includes(d, "not in mixedcase"),
   mentionsZeroCheck |-> includes(d, "lacks a zero-check") \/ includes(d, "zero-check")]

\* the table with the title of reentrancy-no-eth copied to reentrancy-benign
friendlyTitle_copied(check) ==
  CASE check = "controlled-delegatecall" -> "Controlled Delegatecall"
    [] check = "reentrancy-no-eth" -> "Reentrancy (no ETH)"
    [] check = "reentrancy-benign" -> "Reentrancy (no ETH)"
    [] check = "missing-zero-check" -> "Missing zero-check (address)"
    [] check = "low-level-calls" -> "Low-level calls"
    [] check = "naming-convention" -> "Naming convention"
    [] OTHER -> check

friendlyTitle(check) ==
  CASE check = "controlled-delegatecall" -> "Controlled Delegatecall"
    [] check = "reentrancy-no-eth" -> "Reentrancy (no ETH)"
    [] check = "reentrancy-benign" -> "Reentrancy (benign)"
    [] check = "missing-zero-check" -> "Missing zero-check (address)"
    [] check = "low-level-calls" -> "Low-level calls"
    [] check = "naming-convention" -> "Naming convention"
    [] OTHER -> check

\* ---------------------------------------------------- deterministic renderer
Sentence == "A state variable is written after an external call."
CheckMark == "U+2705 "
\* the order with its first two severities exchanged
order_swapped == <<"Medium", "High", "Low", "Informational">>
order == <<"High", "Medium", "Low", "Informational">>
Impacts == {order[i] : i \in 1..Len(order)}

\* the line `# ${sev} Impact Findings`
SectionHeading(sev) == <<"#", " ", sev, " Impact Findings">>

\* the risk and remediation snippets of renderOne's switch on it.check
risk(it) ==
  CASE it.check = "controlled-delegatecall" ->
         <<"Uses 'delegatecall' to an input-controlled target, executing code in the caller's context.">>
    [] it.check = "reentrancy-no-eth" ->
         <<"External call occurs before a state write, enabling reentrancy before effects are applied. ",
           Sentence>>
    [] it.check = "reentrancy-benign" ->
         <<"External call followed by a state write (marked benign by Slither for this context). ",
           Sentence>>
    [] it.check = "missing-zero-check" ->
         <<"Target address parameter lacks a '!= address(0)' validation.">>
    [] it.check = "low-level-calls" ->
         <<"Uses low-level calls ('call'/'delegatecall') that bypass type safety and can fail silently.">>
    [] it.check = "naming-convention" -> <<"Variable is not in mixedCase.">>
    [] OTHER -> IF it.description # <<>> THEN it.description ELSE <<"See description.">>

remediation(it) ==
  CASE it.check = "controlled-delegatecall" ->
         "Avoid 'delegatecall' to untrusted targets; restrict to immutable/whitelisted addresses or replace with interface calls."
    [] it.check = "reentrancy-no-eth" ->
         "Apply Checks-Effects-Interactions and/or a reentrancy guard; validate/limit the callee."
    [] it.check = "reentrancy-benign" ->
         "Prefer CEI or a guard if the function can be externally triggered."
    [] it.check = "missing-zero-check" ->
         "Validate non-zero addresses and check 'success' for low-level calls."
    [] it.check = "low-level-calls" ->
         "Prefer typed interface calls; if using low-level calls, check 'success' and handle returned data."
    [] it.check = "naming-convention" ->
         "Rename variables to mixedCase (e.g., 'sVariable', 'sOtherVar')."
    [] OTHER -> "Follow best practices for this category."

\* /\w+\s*\(.*\)/.test(elem): a word character, optional white space, "(",
\* anything, ")"
LooksLikeCall(elem) ==
  \E i \in 1..Len(elem) : \E j \in (i + 1)..Len(elem) : \E k \in (j + 1)..Len(elem) :
    /\ elem[i] \in WordTokens
    /\ \A m \in (i + 1)..(j - 1) : elem[m] \in SpaceTokens
    /\ elem[j] = "("
    /\ elem[k] = ")"

\* the string swcLines of renderOne: its lines, "" when there is no entry
swcLines(it) ==
  IF it.swc = <<>> THEN EmptyStr
  ELSE LET swc == it.swc[1]
           parts ==
             << << <<"- **SWC:** ">> \o (IF swc.id # "" THEN <<swc.id, ": ">> ELSE <<>>)
                                    \o <<swc.title>> >> >>
             \o (IF swc.remediation # <<>>
                 THEN << << <<"- **SWC Remediation:** ">> \o swc.remediation >> >> ELSE <<>>)
             \o (IF swc.references # <<>>
                 THEN << << <<"- **References:**">> >>
                          \o [i \in 1..Len(swc.references) |-> <<"  - ", swc.references[i]>>] >>
                 ELSE <<>>)
       IN JoinLines(parts)

\* the block of one finding, as the lines of the string renderOne returns
renderOne(it) ==
  LET locs == it.locations
      fe == FirstElement(locs)
      elem == IF fe = <<>> THEN <<"N/A">> ELSE fe[1]
      isFunctionish ==
        \/ LooksLikeCall(elem)
        \/ it.check \in {"controlled-delegatecall", "reentrancy-no-eth",
                         "reentrancy-benign", "low-level-calls"}
      label == IF isFunctionish THEN "Function" ELSE "Element"
      line == FirstLine(locs)
      contract == <<"- Contract: ">> \o (IF locs # <<>> THEN locs[1].file ELSE <<"(unknown file)">>)
      locList == formatLocations(locs)
      headerLines ==
        IF Len(locList) > 1
        THEN <<contract, <<"- Locations:">>>> \o locList
        ELSE <<contract,
               <<"- ", label, ": '">> \o elem \o <<"'">>
                 \o (IF line # null /\ line[1] # 0
                     THEN <<" (line ">> \o NumStr(line[1]) \o <<")">> ELSE <<>>)>>
  IN JoinLines(
       << << <<"#", "#", " ", friendlyTitle(it.check)>> >>,
          headerLines,
          << <<"- Confidence: ", it.confidence>> >>,
          << <<"- Issue: ">> \o risk(it) >>,
          << <<"- Recommendation: ", remediation(it)>> >>,
          swcLines(it),
          EmptyStr >>)

\* byImpact with `=` in place of push: the last item of that impact only
byImpact_assign(items, sev) ==
  LET idx == SelectIdx(Len(items), 1, [i \in 1..Len(items) |-> items[i].impact = sev])
  IN IF idx = <<>> THEN <<>> ELSE <<items[idx[Len(idx)]]>>

\* byImpact[sev] after the loop over items: the items of that impact, in order
byImpact(items, sev) ==
  LET idx == SelectIdx(Len(items), 1, [i \in 1..Len(items) |-> items[i].impact = sev])
  IN [i \in 1..Len(idx) |-> items[idx[i]]]

renderMarkdownDeterministic(address, items) ==
  LET present == SelectIdx(Len(order), 1, [i \in 1..Len(order) |-> byImpact(items, order[i]) # <<>>])
      section(sev) ==
        LET its == byImpact(items, sev)
            body == JoinLines([i \in 1..Len(its) |-> renderOne(its[i])])
        IN <<SectionHeading(sev), <<>>>> \o body
      sections == JoinLines([i \in 1..Len(present) |-> section(order[present[i]])])
  IN IF sections # EmptyStr THEN sections
     ELSE << <<CheckMark, "No vulnerabilities found by Slither for ", address, ".">> >>

\* ------------------------------------------------------------------ normalize
\* normalisation that files an impact outside the four under Informational
normalizeIssue_knownImpact(issue) ==
  [check |-> issue.check,
   title |-> friendlyTitle(issue.check),
   impact |-> IF issue.impact \in Impacts THEN issue.impact ELSE "Informational",
   confidence |-> issue.confidence,
   description |-> issue.description,
   locations |-> issue.locations,
   facts |-> IF issue.facts # <<>> THEN issue.facts[1] ELSE deriveFacts(issue.description),
   swc |-> issue.swc]

\* issue.facts and issue.swc are lists of at most one value (the optional fields)
normalizeIssue(issue) ==
  [check |-> issue.check,
   title |-> friendlyTitle(issue.check),
   impact |-> issue.impact,
   confidence |-> issue.confidence,
   description |-> issue.description,
   locations |-> issue.locations,
   facts |-> IF issue.facts # <<>> THEN issue.facts[1] ELSE deriveFacts(issue.description),
   swc |-> issue.swc]

\* --------------------------------------------------------- validation utilities
countsByImpact(items) ==
  [sev \in Impacts \cup {items[i].impact : i \in 1..Len(items)} |->
     Cardinality({i \in 1..Len(items) : items[i].impact = sev})]

\* a line the pattern ^# ${sev} Impact Findings\s*$ matches
IsSectionHeading(line, sev) ==
  /\ Len(line) >= 4
  /\ SubSeq(line, 1, 4) = SectionHeading(sev)
  /\ \A i \in 5..Len(line) : line[i] \in SpaceTokens

\* md.split(pattern)[1] || "": the lines between the first and the second
\* heading of sev (to the end when there is no second one)
SectionOf(md, sev) ==
  LET hs == SelectIdx(Len(md), 1, [i \in 1..Len(md) |-> IsSectionHeading(md[i], sev)])
  IN IF hs = <<>> THEN <<>>
     ELSE SubSeq(md, hs[1] + 1, IF Len(hs) > 1 THEN hs[2] - 1 ELSE Len(md))

\* the number of matches of /^## /gm and of /^### /gm in a piece of text
count2(section) ==
  Cardinality({i \in 1..Len(section) :
     Len(section[i]) >= 3 /\ SubSeq(section[i], 1, 3) = <<"#", "#", " ">>})

count3(section) ==
  Cardinality({i \in 1..Len(section) :
     Len(section[i]) >= 4 /\ SubSeq(section[i], 1, 4) = <<"#", "#", "#", " ">>})

parseCountsFromMarkdown(md) ==
  [sev \in Impacts |->
     LET section == SectionOf(md, sev)
     IN IF count2(section) >= count3(section) THEN count2(section) ELSE count3(section)]

\* the pattern anchored at the start of the text: only a link that opens
\* the first line is seen
containsForbiddenAnchors_anchored(md) ==
  \E j \in 5..Len(md[1]) :
    /\ md[1][2] = "]"
    /\ md[1][3] = "("
    /\ md[1][4] = "#"
    /\ md[1][j] = ")"

\* /\]\(#.+?\)/.test(md): "](#", at least one character other than a line
\* break, then ")"
containsForbiddenAnchors(md) ==
  \E n \in 1..Len(md) : \E i \in 1..Len(md[n]) : \E j \in (i + 4)..Len(md[n]) :
    /\ md[n][i] = "]"
    /\ md[n][i + 1] = "("
    /\ md[n][i + 2] = "#"
    /\ md[n][j] = ")"

\* md.includes(Sentence)
includesSentence(md) == \E n \in 1..Len(md) : \E i \in 1..Len(md[n]) : md[n][i] = Sentence

\* the sentence looked for without regard to case
missingWritesAfterCallSentence_anyCase(md, items) ==
  LET needs == \E i \in 1..Len(items) : items[i].facts.writesAfterCall
  IN IF ~needs THEN FALSE
     ELSE ~\E n \in 1..Len(md) : \E i \in 1..Len(md[n]) : LowerTok(md[n][i]) = LowerTok(Sentence)

missingWritesAfterCallSentence(md, items) ==
  LET needs == \E i \in 1..Len(items) : items[i].facts.writesAfterCall
  IN IF ~needs THEN FALSE ELSE ~includesSentence(md)

validateOrFallback(md, enrichedIssues) ==
  LET expected == countsByImpact(enrichedIssues)
      seen == parseCountsFromMarkdown(md)
      countsOk == \A sev \in Impacts : expected[sev] = seen[sev]
      anchorsOk == ~containsForbiddenAnchors(md)
      writesOk == ~missingWritesAfterCallSentence(md, enrichedIssues)
  IN countsOk /\ anchorsOk /\ writesOk

\* ------------------------------------------------------------------ inputs
File == <<"src/V.sol">>
Element(name, file, lines) == [name |-> name, source_mapping |-> [filename_relative |-> file, lines |-> lines]]

DescReentrancy == <<"Reentrancy in callContract: ", "State variables written after the call">>
DescZero == <<"yourAddress ", "lacks a zero-check on">>

\* detector records of a Slither report (DetectorResult); a missing
\* description, name or file is the empty string, missing lines the empty list
DetectorPool ==
  { [check |-> "controlled-delegatecall", impact |-> "High", confidence |-> "Medium",
     description |-> <<"uses ", "Delegatecall">>,
     elements |-> <<Element(<<"callContract">>, File, <<8>>),
                    Element(<<"x", "(", ")">>, File, <<9, 10>>)>>],
    [check |-> "reentrancy-no-eth", impact |-> "Medium", confidence |-> "Medium",
     description |-> DescReentrancy,
     elements |-> <<Element(<<"callContract">>, File, <<8>>)>>],
    [check |-> "missing-zero-check", impact |-> "Low", confidence |-> "Medium",
     description |-> DescZero,
     elements |-> <<Element(<<"yourAddress">>, File, <<7>>)>>],
    [check |-> "missing-zero-check", impact |-> "Low", confidence |-> "Medium",
     description |-> DescZero,
     elements |-> <<Element(<<"yourAddress">>, File, <<9>>)>>],
    [check |-> "arbitrary-send-eth", impact |-> "High", confidence |-> "High",
     description |-> DescReentrancy,
     elements |-> <<>>],
    [check |-> "constable-states", impact |-> "Optimization", confidence |-> "High",
     description |-> <<>>,
     elements |-> <<Element(<<"s_variable">>, <<>>, <<>>)>>],
    [check |-> "naming-convention", impact |-> "Informational", confidence |-> "High",
     description |-> <<"s_variable ", "is not in mixedCase">>,
     elements |-> <<Element(<<"s_variable">>, File, <<5>>), Element(<<"s_variable">>, File, <<5>>)>>] }

RECURSIVE SeqsUpTo(_, _)
\* the sequences over S of length at most n
SeqsUpTo(S, n) ==
  IF n = 0 THEN {<<>>}
  ELSE LET shorter == SeqsUpTo(S, n - 1)
       IN shorter \cup {Append(q, x) : q \in {t \in shorter : Len(t) = n - 1}, x \in S}

\* the detector lists Slither may report
Reports == SeqsUpTo(DetectorPool, MaxFindings)

\* lines a candidate generator may write
CandidateLines ==
  { SectionHeading("High"), SectionHeading("Medium"),
    <<"#", "#", " ", "t">>,
    <<"#", "#", "#", " ", "t">>,
    <<Sentence>>,
    <<LowerTok(Sentence)>>,
    <<"[", "t", "]", "(", "#", "t", ")">>,
    <<"[", "t", "]", "(", "#", ")">> }

\* the strings a candidate generator may answer: the empty string and the
\* texts of up to MaxCandLines lines
Candidates == {EmptyStr} \cup (SeqsUpTo(CandidateLines, MaxCandLines) \ {<<>>})

Addresses == {"0xA", "0xB"}
ContractNames == {"Token", "Vault"}
Slots == {1, 2}

\* what Etherscan answers for an address: no verified source, or a flattened
\* single-file source, identified by its contract name and by the detector
\* list Slither reports on it
Unverified == [verified |-> FALSE, ContractName |-> "Token", detectors |-> <<>>]
Verified(name, ds) == [verified |-> TRUE, ContractName |-> name, detectors |-> ds]

\* ------------------------------------------------------------------- state
VARIABLES
  AUDIT_RENDERER,  \* process.env.AUDIT_RENDERER
  etherscan,       \* the verified source Etherscan holds for each address
  tmp,             \* the files under TMP: contract name -> list of at most one content
  summaryFile,     \* audit-summary.md: list of at most one Markdown text
  runs,            \* the invocations of runAudit in flight, by slot
  lastReturned,    \* history: the text the most recently completed run returned
  pipe             \* the values of one pass through the pure stages, stage by stage

vars == <<AUDIT_RENDERER, etherscan, tmp, summaryFile, runs, lastReturned, pipe>>

\* the pure stages before they are given an input
IdlePipe ==
  [pc |-> "off", address |-> "", detectors |-> <<>>,
   enrichedIssuesRaw |-> <<>>, groupInput |-> <<>>, enrichedIssues |-> <<>>, regrouped |-> <<>>,
   locs |-> <<>>, deduped |-> <<>>, rededuped |-> <<>>, md |-> EmptyStr,
   check |-> "", description |-> <<>>, swcEntry |-> <<>>]

IdleRun ==
  [pc |-> "idle", address |-> "", contractPath |-> "",
   enrichedIssues |-> <<>>, aiCalls |-> 0, aiFailed |-> FALSE, waited |-> 0,
   response |-> EmptyStr, md |-> EmptyStr, overlapped |-> {}]

\* a run between its call and its return or throw
Active(r) == runs[r].pc \notin {"idle", "done", "thrown"}

\* ------------------------------------------------------------ runAudit, pure
\* the element of the list `issues` built from one detector record
IssueOfDetector(d) ==
  [check |-> d.check,
   impact |-> d.impact,
   confidence |-> d.confidence,
   description |-> d.description,
   locations |-> [i \in 1..Len(d.elements) |->
      [file |-> d.elements[i].source_mapping.filename_relative,
       line |-> IF d.elements[i].source_mapping.lines # <<>>
                THEN <<d.elements[i].source_mapping.lines[1]>> ELSE null,
       element |-> d.elements[i].name]],
   facts |-> <<deriveFacts(d.description)>>]

\* the element of enrichedIssuesRaw built from one issue
EnrichIssue(issue) ==
  LET swcEntry == enrichWithSWC(issue.check, issue.description)
      swc == IF swcEntry # <<>>
             THEN <<[id |-> swcEntry[1].Id, title |-> swcEntry[1].Title,
                     remediation |-> swcEntry[1].Remediation,
                     references |-> getReferences(swcEntry[1])]>>
             ELSE <<>>
  IN normalizeIssue([check |-> issue.check, impact |-> issue.impact,
                     confidence |-> issue.confidence, description |-> issue.description,
                     locations |-> issue.locations, facts |-> issue.facts, swc |-> swc])

\* enrichedIssues of a detector list
EnrichedIssues(detectors) ==
  groupByCheckAndElement([i \in 1..Len(detectors) |-> EnrichIssue(IssueOfDetector(detectors[i]))])

\* the sentence runAudit returns when Slither reports nothing
NoIssuesReturn(address) ==
  << <<CheckMark, "No vulnerabilities found by Slither for this contract (", address, ").">> >>

\* the text of the LLM path after validation
ValidatedOrFallback(address, response, enrichedIssues) ==
  IF ~validateOrFallback(response, enrichedIssues)
  THEN renderMarkdownDeterministic(address, enrichedIssues)
  ELSE response

\* ----------------------------------------------------------------- actions
\* a caller invokes runAudit(address); the run suspends on the Etherscan request
Start(r, a) ==
  /\ runs[r].pc = "idle"
  /\ runs' = [s \in Slots |->
       IF s = r THEN [IdleRun EXCEPT !.pc = "fetching", !.address = a,
                        !.overlapped = {runs[o].address : o \in {o \in Slots \ {r} : Active(o)}}]
       ELSE IF Active(s) THEN [runs[s] EXCEPT !.overlapped = @ \cup {a}]
       ELSE runs[s]]
  /\ UNCHANGED <<pipe, AUDIT_RENDERER, etherscan, tmp, summaryFile, lastReturned>>

\* fetchContractSource after its awaits: throws without verified source, else
\* writes the flattened source under TMP and resolves with its path
fetchContractSource(r) ==
  /\ runs[r].pc = "fetching"
  /\ LET data == etherscan[runs[r].address] IN
     IF ~data.verified
     THEN /\ runs' = [runs EXCEPT ![r].pc = "thrown"]
          /\ tmp' = tmp
     ELSE /\ tmp' = [tmp EXCEPT ![data.ContractName] = <<data.detectors>>]
          /\ runs' = [runs EXCEPT ![r].pc = "resumed", ![r].contractPath = data.ContractName]
  /\ UNCHANGED <<pipe, AUDIT_RENDERER, etherscan, summaryFile, lastReturned>>

\* runAudit from the resumption after `await fetchContractSource` to its next
\* return or await: Slither on the file at contractPath, normalisation,
\* grouping, then the early return, the deterministic path, or the request
\* to the generator
Analyse(r) ==
  /\ runs[r].pc = "resumed"
  /\ \E detectors \in {tmp[runs[r].contractPath][1]} :
     \E issues \in {[i \in 1..Len(detectors) |-> IssueOfDetector(detectors[i])]} :
       IF Len(issues) = 0
       THEN /\ runs' = [runs EXCEPT ![r].pc = "done",
                                    ![r].md = NoIssuesReturn(runs[r].address)]
            /\ lastReturned' = <<NoIssuesReturn(runs[r].address)>>
            /\ summaryFile' = summaryFile
       ELSE \E enrichedIssues \in {EnrichedIssues(detectors)} :
            IF AUDIT_RENDERER = "deterministic"
            THEN \E md \in {renderMarkdownDeterministic(runs[r].address, enrichedIssues)} :
                 /\ summaryFile' = <<md>>
                 /\ runs' = [runs EXCEPT ![r].pc = "done",
                                         ![r].enrichedIssues = enrichedIssues, ![r].md = md]
                 /\ lastReturned' = <<md>>
            ELSE /\ runs' = [runs EXCEPT ![r].pc = "generating",
                                         ![r].enrichedIssues = enrichedIssues,
                                         ![r].aiCalls = runs[r].aiCalls + 1]
                 /\ UNCHANGED <<summaryFile, lastReturned>>
  /\ UNCHANGED <<pipe, AUDIT_RENDERER, etherscan, tmp>>

\* the request to the generator resolves with an HTTP response
GeneratorResponds(r) ==
  /\ runs[r].pc = "generating"
  /\ runs' = [runs EXCEPT ![r].pc = "reading", ![r].waited = 0]
  /\ UNCHANGED <<pipe, AUDIT_RENDERER, etherscan, tmp, summaryFile, lastReturned>>

\* time passes while the request to the generator is pending: the request
\* carries no timeout and no abort signal, so the run only goes on waiting
GeneratorSilent(r) ==
  /\ runs[r].pc = "generating"
  /\ runs[r].waited < MaxWait
  /\ runs' = [runs EXCEPT ![r].waited = runs[r].waited + 1]
  /\ UNCHANGED <<pipe, AUDIT_RENDERER, etherscan, tmp, summaryFile, lastReturned>>

\* the request to the generator rejects (transport failure): `await fetch`
\* throws inside runAudit, which has no handler
GeneratorFails(r) ==
  /\ runs[r].pc = "generating"
  /\ runs' = [runs EXCEPT ![r].pc = "thrown", ![r].aiFailed = TRUE, ![r].waited = 0]
  /\ UNCHANGED <<pipe, AUDIT_RENDERER, etherscan, tmp, summaryFile, lastReturned>>

\* aiRes.json() resolves with data; response is data.response as a list of
\* at most one string.  Validation, fallback, write and return follow.
ReadResponse(r, response) ==
  /\ runs[r].pc = "reading"
  /\ \E candidate \in {IF response # <<>> THEN response[1] ELSE EmptyStr} :
     \E md \in {ValidatedOrFallback(runs[r].address, candidate, runs[r].enrichedIssues)} :
        /\ summaryFile' = <<md>>
        /\ runs' = [runs EXCEPT ![r].pc = "done", ![r].response = candidate, ![r].md = md]
        /\ lastReturned' = <<md>>
  /\ UNCHANGED <<pipe, AUDIT_RENDERER, etherscan, tmp>>

\* aiRes.json() rejects (the body is not JSON): the await throws
ReadResponseFails(r) ==
  /\ runs[r].pc = "reading"
  /\ runs' = [runs EXCEPT ![r].pc = "thrown", ![r].aiFailed = TRUE]
  /\ UNCHANGED <<pipe, AUDIT_RENDERER, etherscan, tmp, summaryFile, lastReturned>>

\* the caller has taken the result or the exception; the slot is free again
Return(r) ==
  /\ runs[r].pc \in {"done", "thrown"}
  /\ runs' = [runs EXCEPT ![r] = IdleRun]
  /\ UNCHANGED <<pipe, AUDIT_RENDERER, etherscan, tmp, summaryFile, lastReturned>>

\* what the generator may answer: a body without `response`, or any bounded text
Responses == {<<>>} \cup {<<c>> : c \in Candidates}

\* the answer of a generator that reproduces the reference rendering of the
\* findings it was given
ReferenceResponse(r) ==
  <<renderMarkdownDeterministic(runs[r].address, runs[r].enrichedIssues)>>

\* --------------------------------------------------- one run, all the inputs
Init ==
  /\ AUDIT_RENDERER \in {"deterministic", ""}
  /\ etherscan \in {[a \in Addresses |-> IF a = "0xA" THEN src ELSE Unverified] :
                     src \in {Unverified} \cup {Verified("Token", ds) : ds \in Reports}}
  /\ tmp = [n \in ContractNames |-> <<>>]
  /\ summaryFile = <<>>
  /\ runs = [s \in Slots |-> IdleRun]
  /\ lastReturned = <<>>
  /\ pipe = IdlePipe

Next ==
  \/ Start(1, "0xA")
  \/ fetchContractSource(1)
  \/ Analyse(1)
  \/ GeneratorResponds(1)
  \/ GeneratorSilent(1)
  \/ GeneratorFails(1)
  \/ \E response \in Responses : ReadResponse(1, response)
  \/ ReadResponse(1, ReferenceResponse(1))
  \/ ReadResponseFails(1)

Spec == Init /\ [][Next]_vars

\* ------------------------------------- two slots, restarts, a few inputs
Reentrancy == CHOOSE d \in DetectorPool : d.check = "reentrancy-no-eth"
Delegatecall == CHOOSE d \in DetectorPool : d.check = "controlled-delegatecall"

ConcResponses ==
  { <<>>,
    << <<SectionHeading("Medium"), <<"#", "#", " ", "t">>, <<Sentence>>>> >>,
    << <<SectionHeading("High"), <<"#", "#", " ", "t">>>> >> }

ConcInit ==
  /\ AUDIT_RENDERER \in {"deterministic", ""}
  /\ etherscan \in {[a \in Addresses |-> IF a = "0xA" THEN Verified("Token", <<Reentrancy>>) ELSE src] :
                     src \in {Unverified, Verified("Token", <<>>),
                              Verified("Token", <<Delegatecall>>),
                              Verified("Vault", <<Delegatecall>>)}}
  /\ tmp = [n \in ContractNames |-> <<>>]
  /\ summaryFile = <<>>
  /\ runs = [s \in Slots |-> IdleRun]
  /\ lastReturned = <<>>
  /\ pipe = IdlePipe

ConcNext ==
  \E r \in Slots :
    \/ \E a \in Addresses : Start(r, a)
    \/ fetchContractSource(r)
    \/ Analyse(r)
    \/ GeneratorResponds(r)
    \/ GeneratorSilent(r)
    \/ GeneratorFails(r)
    \/ \E response \in ConcResponses : ReadResponse(r, response)
    \/ ReadResponseFails(r)
    \/ Return(r)

ConcSpec == ConcInit /\ [][ConcNext]_vars

\* ------------------------------------------- the pure stages, all the inputs
MaxRecords == 3
MaxDescTokens == 2

\* a property read from a value that lacks it, as every use in the pipeline
\* sees it: equal to no case of a switch, and "undefined" once interpolated
undefined == "undefined"

\* an element of a parsed report with all its properties; a property of a
\* parsed value is a list of at most one value (<<>>: the property is missing)
RawElement(name, file, lines) ==
  [name |-> <<name>>,
   source_mapping |-> <<[filename_relative |-> <<file>>, lines |-> <<lines>>]>>]

\* the records a parsed Slither report may hold
RawPool ==
  { [check |-> <<"missing-zero-check">>, impact |-> <<"Low">>, confidence |-> <<"Medium">>,
     description |-> <<DescZero>>,
     elements |-> << <<RawElement(<<"yourAddress">>, File, <<7>>)>> >>],
    [check |-> <<"missing-zero-check">>, impact |-> <<"Low">>, confidence |-> <<"High">>,
     description |-> <<DescZero>>,
     elements |-> << <<RawElement(<<"yourAddress">>, File, <<9>>)>> >>],
    [check |-> <<"missing-zero-check">>, impact |-> <<"Low">>, confidence |-> <<"Medium">>,
     description |-> << <<"yourAddress ">> >>,
     elements |-> << <<RawElement(<<"yourAddress">>, File, <<11>>)>> >>],
    [check |-> <<"reentrancy-benign">>, impact |-> <<"Low">>, confidence |-> <<"Medium">>,
     description |-> <<DescReentrancy>>,
     elements |-> << <<RawElement(<<"callContract">>, File, <<8>>)>> >>],
    [check |-> <<"reentrancy-no-eth">>, impact |-> <<"Medium">>, confidence |-> <<"Medium">>,
     description |-> <<DescReentrancy>>,
     elements |-> << <<RawElement(<<"callContract">>, File, <<8>>),
                       RawElement(<<"callContract">>, File, <<8>>)>> >>],
    [check |-> <<"tx-origin">>, impact |-> <<"Medium">>, confidence |-> <<"Medium">>,
     description |-> << <<"uses ", "tx.origin">> >>,
     elements |-> << <<RawElement(<<":", "x">>, File, <<1>>),
                       [name |-> << <<"x">> >>,
                        source_mapping |-> <<[filename_relative |-> <<File \o <<":", "1">>>>,
                                              lines |-> <<>>]>>]>> >>],
    [check |-> <<"missing-zero-check">>, impact |-> <<"Low">>, confidence |-> <<"Medium">>,
     description |-> <<DescZero>>,
     elements |-> << <<[name |-> <<>>,
                        source_mapping |-> <<[filename_relative |-> <<File>>, lines |-> << <<5>> >>]>>],
                       RawElement(<<"yourAddress">>, File, <<6>>)>> >>],
    [check |-> <<"missing-zero-check">>, impact |-> <<"Low">>, confidence |-> <<"Medium">>,
     description |-> <<DescZero>>,
     elements |-> << <<[name |-> <<>>,
                        source_mapping |-> <<[filename_relative |-> <<File>>, lines |-> << <<3>> >>]>>]>> >>],
    [check |-> <<"controlled-delegatecall">>, impact |-> <<"High">>, confidence |-> <<"Medium">>,
     description |-> << <<"uses ", "Delegatecall">> >>,
     elements |-> << <<RawElement(<<"callContract">>, File, <<8>>),
                       RawElement(<<"x", "(", ")">>, File, <<9, 10>>)>> >>],
    [check |-> <<>>, impact |-> <<>>, confidence |-> <<>>, description |-> <<>>,
     elements |-> <<>>],
    [check |-> <<"low-level-calls">>, impact |-> <<"Informational">>, confidence |-> <<"High">>,
     description |-> << <<"uses ", ".call(">> >>,
     elements |-> <<>>],
    [check |-> <<"constable-states">>, impact |-> <<"Optimization">>, confidence |-> <<"High">>,
     description |-> <<>>,
     elements |-> << << [name |-> <<>>, source_mapping |-> <<>>],
                        [name |-> << <<"s_variable">> >>,
                         source_mapping |-> <<[filename_relative |-> <<>>, lines |-> <<>>]>>],
                        [name |-> << <<"s_variable">> >>,
                         source_mapping |-> <<[filename_relative |-> <<File>>, lines |-> << <<>> >>]>>] >> >>] }

RawReports == SeqsUpTo(RawPool, MaxRecords)

\* a string property as the pipeline carries it
ReadString(p) == IF p = <<>> THEN undefined ELSE p[1]

\* e.name ?? "", e.source_mapping?.filename_relative ?? "" and
\* e.source_mapping?.lines (the first of which, ?? null, is taken next)
ReadElement(e) ==
  Element(IF e.name = <<>> THEN <<>> ELSE e.name[1],
          IF e.source_mapping = <<>> \/ e.source_mapping[1].filename_relative = <<>>
          THEN <<>> ELSE e.source_mapping[1].filename_relative[1],
          IF e.source_mapping = <<>> \/ e.source_mapping[1].lines = <<>>
          THEN <<>> ELSE e.source_mapping[1].lines[1])

\* d.elements.map(...) with no `?? []`: it throws on a record without elements
ReadElements_unguarded(d) ==
  [threw |-> d.elements = <<>>,
   value |-> IF d.elements = <<>> THEN <<>>
             ELSE [i \in 1..Len(d.elements[1]) |-> ReadElement(d.elements[1][i])]]

\* (d.elements ?? []).map(...): whether it threw, and the elements read
ReadElements(d) ==
  [threw |-> FALSE,
   value |-> IF d.elements = <<>> THEN <<>>
             ELSE [i \in 1..Len(d.elements[1]) |-> ReadElement(d.elements[1][i])]]

\* the properties runAudit reads from one parsed record
ReadDetector(d) ==
  [check |-> ReadString(d.check), impact |-> ReadString(d.impact),
   confidence |-> ReadString(d.confidence),
   description |-> IF d.description = <<>> THEN <<>> ELSE d.description[1],
   elements |-> ReadElements(d).value]

RECURSIVE Concat(_)
\* the concatenation of a list of lists
Concat(ss) == IF ss = <<>> THEN <<>> ELSE Head(ss) \o Concat(Tail(ss))

\* issues.map(...) of runAudit: enrichment and normalisation of every record,
\* or the exception of a property read
Normalize ==
  /\ pipe.pc = "parsed"
  /\ IF \E i \in 1..Len(pipe.detectors) : ReadElements(pipe.detectors[i]).threw
     THEN pipe' = [pipe EXCEPT !.pc = "thrown"]
     ELSE pipe' = [pipe EXCEPT !.pc = "normalized",
                     !.enrichedIssuesRaw = [i \in 1..Len(pipe.detectors) |->
                        EnrichIssue(IssueOfDetector(ReadDetector(pipe.detectors[i])))]]
  /\ UNCHANGED <<AUDIT_RENDERER, etherscan, tmp, summaryFile, runs, lastReturned>>

\* uniqueLocations on the locations of all the findings, one after the other
Deduplicate ==
  /\ pipe.pc = "normalized"
  /\ \E locs \in {Concat([i \in 1..Len(pipe.enrichedIssuesRaw) |-> pipe.enrichedIssuesRaw[i].locations])} :
       pipe' = [pipe EXCEPT !.pc = "deduped", !.locs = locs, !.deduped = uniqueLocations(locs)]
  /\ UNCHANGED <<AUDIT_RENDERER, etherscan, tmp, summaryFile, runs, lastReturned>>

\* uniqueLocations on its own result
DeduplicateAgain ==
  /\ pipe.pc = "deduped"
  /\ pipe' = [pipe EXCEPT !.pc = "rededuped", !.rededuped = uniqueLocations(pipe.deduped)]
  /\ UNCHANGED <<AUDIT_RENDERER, etherscan, tmp, summaryFile, runs, lastReturned>>

\* groupByCheckAndElement(enrichedIssuesRaw): its result, and its argument as
\* the call leaves it (groupInput keeps the argument as it was at the call)
Group ==
  /\ pipe.pc = "normalized"
  /\ pipe' = [pipe EXCEPT !.pc = "grouped",
                !.groupInput = pipe.enrichedIssuesRaw,
                !.enrichedIssues = groupByCheckAndElement(pipe.enrichedIssuesRaw),
                !.enrichedIssuesRaw = InputAfterGroup(pipe.enrichedIssuesRaw)]
  /\ UNCHANGED <<AUDIT_RENDERER, etherscan, tmp, summaryFile, runs, lastReturned>>

\* groupByCheckAndElement on its own result
Regroup ==
  /\ pipe.pc = "grouped"
  /\ pipe' = [pipe EXCEPT !.pc = "regrouped",
                !.regrouped = groupByCheckAndElement(pipe.enrichedIssues)]
  /\ UNCHANGED <<AUDIT_RENDERER, etherscan, tmp, summaryFile, runs, lastReturned>>

\* renderMarkdownDeterministic(address, enrichedIssues)
Render ==
  /\ pipe.pc = "grouped"
  /\ pipe' = [pipe EXCEPT !.pc = "rendered",
                !.md = renderMarkdownDeterministic(pipe.address, pipe.enrichedIssues)]
  /\ UNCHANGED <<AUDIT_RENDERER, etherscan, tmp, summaryFile, runs, lastReturned>>

PipeInit ==
  /\ AUDIT_RENDERER = "deterministic"
  /\ etherscan = [a \in Addresses |-> Unverified]
  /\ tmp = [n \in ContractNames |-> <<>>]
  /\ summaryFile = <<>>
  /\ runs = [s \in Slots |-> IdleRun]
  /\ lastReturned = <<>>
  /\ pipe \in {[IdlePipe EXCEPT !.pc = "parsed", !.address = "0xA", !.detectors = ds] :
                 ds \in RawReports}

PipeNext ==
  \/ Normalize
  \/ Deduplicate
  \/ DeduplicateAgain
  \/ Group
  \/ Regroup
  \/ Render

PipeSpec == PipeInit /\ [][PipeNext]_vars

\* ------------------------------------------- the knowledge lookup, all inputs
LookupChecks ==
  {"controlled-delegatecall", "reentrancy-no-eth", "reentrancy-benign", "low-level-calls",
   "missing-zero-check", "reentrancy-eth", "tx-origin", undefined}

DescriptionTokens == {"Integer Overflow", "underflow", "tx.origin", "uses "}

\* the descriptions: the empty (or missing) one and the short ones
Descriptions == SeqsUpTo(DescriptionTokens, MaxDescTokens)

\* enrichWithSWC({check, description})
Enrich ==
  /\ pipe.pc = "lookup"
  /\ pipe' = [pipe EXCEPT !.pc = "enriched",
                !.swcEntry = enrichWithSWC(pipe.check, pipe.description)]
  /\ UNCHANGED <<AUDIT_RENDERER, etherscan, tmp, summaryFile, runs, lastReturned>>

LookupInit ==
  /\ AUDIT_RENDERER = "deterministic"
  /\ etherscan = [a \in Addresses |-> Unverified]
  /\ tmp = [n \in ContractNames |-> <<>>]
  /\ summaryFile = <<>>
  /\ runs = [s \in Slots |-> IdleRun]
  /\ lastReturned = <<>>
  /\ pipe \in {[IdlePipe EXCEPT !.pc = "lookup", !.check = c, !.description = d] :
                 c \in LookupChecks, d \in Descriptions}

LookupNext == Enrich

LookupSpec == LookupInit /\ [][LookupNext]_vars

\* ------------------------------------------------------------------ claims
Done(r) == runs[r].pc = "done"

\* a run that has returned after asking the generator
Generated(r) == Done(r) /\ runs[r].aiCalls > 0

\* the Deterministic Renderer's text for the findings the run holds
Reference(r) == renderMarkdownDeterministic(runs[r].address, runs[r].enrichedIssues)

\* the number of findings of a severity
NumberOf(items, sev) == Cardinality({i \in 1..Len(items) : items[i].impact = sev})

IsAnySectionHeading(line) == \E sev \in Impacts : IsSectionHeading(line, sev)

IsSubHeading2(line) == Len(line) >= 3 /\ line[1] = "#" /\ line[2] = "#" /\ line[3] = " "

IsSubHeading3(line) ==
  Len(line) >= 4 /\ line[1] = "#" /\ line[2] = "#" /\ line[3] = "#" /\ line[4] = " "

\* the severity of the section heading that is line, "" for any other line
HeadingSeverity(line) ==
  IF IsAnySectionHeading(line) THEN CHOOSE sev \in Impacts : IsSectionHeading(line, sev) ELSE ""

RECURSIVE SectionOfLines(_, _)
\* for each line of md the severity of the nearest section heading at or
\* above it ("" before the first one), cur being the one above md
SectionOfLines(md, cur) ==
  IF md = <<>> THEN <<>>
  ELSE LET here == IF IsAnySectionHeading(Head(md)) THEN HeadingSeverity(Head(md)) ELSE cur
       IN <<here>> \o SectionOfLines(Tail(md), here)

\* the sub-headings under the sections of sev, each section running from its
\* heading to the next section heading, at whichever of the two depths has more
SubHeadingsIn(md, owner, sev) ==
  LET n2 == Cardinality({i \in 1..Len(md) : owner[i] = sev /\ IsSubHeading2(md[i])})
      n3 == Cardinality({i \in 1..Len(md) : owner[i] = sev /\ IsSubHeading3(md[i])})
  IN IF n2 >= n3 THEN n2 ELSE n3

\* md has under each severity's own section as many sub-headings as items
\* has findings of that severity
SectionCountsEqual(md, items) ==
  LET owner == SectionOfLines(md, "")
  IN \A sev \in Impacts : SubHeadingsIn(md, owner, sev) = NumberOf(items, sev)

\* the text has "](#", one or more characters on the same line, then ")"
HasAnchorLink(md) ==
  \E n \in 1..Len(md) : \E i \in 1..Len(md[n]) : \E j \in 1..Len(md[n]) :
    /\ j > i + 3
    /\ <<md[n][i], md[n][i + 1], md[n][i + 2]>> = <<"]", "(", "#">>
    /\ md[n][j] = ")"

HasSentence(md) == \E n \in 1..Len(md) : Sentence \in {md[n][i] : i \in 1..Len(md[n])}

NeedsSentence(items) == \E i \in 1..Len(items) : items[i].facts.writesAfterCall

CountsMatch(md, items) == \A sev \in Impacts : parseCountsFromMarkdown(md)[sev] = NumberOf(items, sev)

\* C1: in generator mode the text a run returns is the candidate unchanged,
\* and then the validator accepted it, or it is the Deterministic Renderer's
\* text for the run's grouped findings.
C1_CandidateOrReference ==
  AUDIT_RENDERER # "deterministic" =>
    \A r \in Slots : Done(r) =>
      \/ /\ runs[r].md = runs[r].response
         /\ runs[r].aiCalls > 0
         /\ validateOrFallback(runs[r].response, runs[r].enrichedIssues)
      \/ runs[r].md = Reference(r)

\* C2: a candidate the validator accepts has, under each severity's own
\* section, as many sub-headings as the finding set has findings of that
\* severity.
C2_AcceptedCountsPerSection ==
  \A r \in Slots :
    (Generated(r) /\ validateOrFallback(runs[r].response, runs[r].enrichedIssues)) =>
      SectionCountsEqual(runs[r].response, runs[r].enrichedIssues)

\* C3: a run whose generator call failed has returned the Deterministic
\* Renderer's text; it has not thrown.
C3_GeneratorFailureFallsBack ==
  \A r \in Slots : runs[r].aiFailed => (Done(r) /\ runs[r].md = Reference(r))

\* C4: the generator call has a bounded timeout: a run never waits for the
\* generator's answer for as long as MaxWait units of time, the longest wait
\* the model counts, but gives the call up before and goes on to its report.
C4_GeneratorCallTimesOut ==
  \A r \in Slots : runs[r].waited < MaxWait

\* C5: a run calls the generator at most once; with the deterministic-only
\* switch set it never calls it and what it returns is the Deterministic
\* Renderer's text.
C5_GeneratorAtMostOnce ==
  \A r \in Slots :
    /\ runs[r].aiCalls <= 1
    /\ AUDIT_RENDERER = "deterministic" =>
         /\ runs[r].aiCalls = 0
         /\ Done(r) => runs[r].md = Reference(r)

\* C6: a candidate with an inline link to an in-document anchor is rejected:
\* the run returns the Deterministic Renderer's text.
C6_AnchorLinkRejected ==
  \A r \in Slots :
    (Generated(r) /\ HasAnchorLink(runs[r].response)) => runs[r].md = Reference(r)

C6_Witness ==
  \E r \in Slots :
    /\ Generated(r)
    /\ HasAnchorLink(runs[r].response)
    /\ CountsMatch(runs[r].response, runs[r].enrichedIssues)
    /\ NeedsSentence(runs[r].enrichedIssues) => HasSentence(runs[r].response)
    /\ runs[r].md # runs[r].response

\* C7: when a finding has the writes-after-call fact, a candidate without
\* the fixed sentence is rejected and one with it is not rejected for that
\* reason; when no finding has the fact the sentence plays no part.
C7_MandatorySentence ==
  \A r \in Slots : Generated(r) =>
    LET needs == NeedsSentence(runs[r].enrichedIssues)
        has == HasSentence(runs[r].response)
        otherRulesPass == /\ CountsMatch(runs[r].response, runs[r].enrichedIssues)
                          /\ ~HasAnchorLink(runs[r].response)
    IN /\ (needs /\ ~has) => runs[r].md = Reference(r)
       /\ (needs /\ has /\ otherRulesPass) => runs[r].md = runs[r].response
       /\ (~needs /\ otherRulesPass) => runs[r].md = runs[r].response

C7_Witness ==
  \E r \in Slots :
    /\ Generated(r)
    /\ NeedsSentence(runs[r].enrichedIssues)
    /\ HasSentence(runs[r].response)
    /\ runs[r].md = runs[r].response
    /\ runs[r].md # Reference(r)

\* C8: the text of the Deterministic Renderer has, under each severity
\* section, as many finding sub-headings as its input has findings of that
\* severity.
C8_RenderedCounts ==
  \A r \in Slots :
    (Done(r) /\ runs[r].enrichedIssues # <<>>
       /\ (AUDIT_RENDERER = "deterministic" \/ runs[r].md # runs[r].response)) =>
      SectionCountsEqual(runs[r].md, runs[r].enrichedIssues)

C8_Witness ==
  \E r \in Slots :
    /\ Done(r)
    /\ AUDIT_RENDERER = "deterministic"
    /\ NumberOf(runs[r].enrichedIssues, "High") = 2
    /\ SubHeadingsIn(runs[r].md, SectionOfLines(runs[r].md, ""), "High") = 2

\* C9: when no run is in flight, audit-summary.md holds the text the most
\* recently completed run returned.
C9_StorageHoldsLastReport ==
  ((\A r \in Slots : ~Active(r)) /\ lastReturned # <<>>) => summaryFile = lastReturned

\* the text a run for this address returns when it runs alone, given the
\* generator's answer
AloneReport(r) ==
  LET own == etherscan[runs[r].address].detectors
      enrichedIssues == EnrichedIssues(own)
  IN IF own = <<>> THEN NoIssuesReturn(runs[r].address)
     ELSE IF AUDIT_RENDERER = "deterministic"
     THEN renderMarkdownDeterministic(runs[r].address, enrichedIssues)
     ELSE ValidatedOrFallback(runs[r].address, runs[r].response, enrichedIssues)

\* C10: a run that overlapped a run for another subject returns what it
\* returns alone, and the stored text of a run with findings is its own.
C10_RunsIndependent ==
  \A r \in Slots :
    (Done(r) /\ runs[r].overlapped \ {runs[r].address} # {}) =>
      /\ runs[r].md = AloneReport(r)
      /\ etherscan[runs[r].address].detectors # <<>> => summaryFile = <<AloneReport(r)>>

\* ---------------------------------------------- claims on the pure stages
\* the stages the pass has gone through
Normalized == pipe.pc \in {"normalized", "deduped", "rededuped", "grouped", "regrouped", "rendered"}

Grouped == pipe.pc \in {"grouped", "regrouped", "rendered"}

Rendered == pipe.pc = "rendered"

\* a finding of a check the Grouper merges
Eligible(it) == it.check = "missing-zero-check"

\* the grouping key of a finding
KeyOf(it) == <<it.check, FirstElement(it.locations)>>

\* the indices of the findings that open a group or stand alone: every
\* finding but the eligible ones with an earlier finding of the same key
FirstSeen(items) ==
  SelectIdx(Len(items), 1,
    [i \in 1..Len(items) |->
       ~(Eligible(items[i]) /\ \E j \in 1..(i - 1) :
            Eligible(items[j]) /\ KeyOf(items[j]) = KeyOf(items[i]))])

\* the sub-heading lines of md under the sections of sev, in order
SubHeadingLines(md, sev) ==
  LET owner == SectionOfLines(md, "")
      idx == SelectIdx(Len(md), 1, [i \in 1..Len(md) |-> owner[i] = sev /\ IsSubHeading2(md[i])])
  IN [i \in 1..Len(idx) |-> md[idx[i]]]

\* the sub-headings of the findings of sev in the order of the raw records,
\* a merged finding standing where its first instance stood
SubHeadingsInInputOrder(items, sev) ==
  LET first == FirstSeen(items)
      idx == SelectIdx(Len(first), 1, [i \in 1..Len(first) |-> items[first[i]].impact = sev])
  IN [i \in 1..Len(idx) |-> <<"#", "#", " ", friendlyTitle(items[first[idx[i]]].check)>>]

\* C11: in the report the findings of each severity section stand in the
\* relative order of their raw records, a merged finding at the place of its
\* first-seen instance.
C11_SectionsInInputOrder ==
  Rendered =>
    \A sev \in Impacts :
      SubHeadingLines(pipe.md, sev) = SubHeadingsInInputOrder(pipe.enrichedIssuesRaw, sev)

\* the indices of the lines of md that are the section heading of sev
HeadingsOf(md, sev) ==
  SelectIdx(Len(md), 1, [i \in 1..Len(md) |-> IsSectionHeading(md[i], sev)])

\* C12: the Deterministic Renderer writes one section heading for each
\* severity that has a finding and none for a severity without, and the
\* headings stand in the order High, Medium, Low, Informational.
C12_OneHeadingPerSeverityInOrder ==
  Rendered =>
    LET fixed == <<"High", "Medium", "Low", "Informational">>
    IN /\ \A k \in 1..4 :
            Len(HeadingsOf(pipe.md, fixed[k])) =
              (IF NumberOf(pipe.enrichedIssues, fixed[k]) > 0 THEN 1 ELSE 0)
       /\ \A k \in 1..4 : \A m \in (k + 1)..4 :
            (HeadingsOf(pipe.md, fixed[k]) # <<>> /\ HeadingsOf(pipe.md, fixed[m]) # <<>>) =>
              HeadingsOf(pipe.md, fixed[k])[1] < HeadingsOf(pipe.md, fixed[m])[1]

C12_Witness ==
  /\ Rendered
  /\ [i \in 1..Len(pipe.enrichedIssues) |-> pipe.enrichedIssues[i].impact] = <<"Low", "Medium", "High">>
  /\ HeadingsOf(pipe.md, "High") = <<1>>
  /\ HeadingsOf(pipe.md, "Informational") = <<>>
  /\ HeadingsOf(pipe.md, "Low") # <<>>

\* C13: a run on an empty finding list returns the Deterministic Renderer's
\* text for the empty finding set, the one sentence naming the subject, and
\* never the empty text.
C13_EmptyFindingsSentence ==
  \A r \in Slots :
    (Done(r) /\ runs[r].enrichedIssues = <<>>) =>
      /\ runs[r].md = renderMarkdownDeterministic(runs[r].address, <<>>)
      /\ runs[r].md # EmptyStr

\* C14: the Grouper applied to its own result returns that result: the same
\* findings in the same order with the same location lists.
C14_GrouperIdempotent ==
  pipe.pc = "regrouped" => pipe.regrouped = pipe.enrichedIssues

C14_Witness ==
  /\ pipe.pc = "regrouped"
  /\ Len(pipe.enrichedIssues) = 2
  /\ Len(pipe.enrichedIssuesRaw) = 3
  /\ \E i \in 1..2 : ~Eligible(pipe.enrichedIssues[i])
  /\ \E i \in 1..2 : Eligible(pipe.enrichedIssues[i]) /\ Len(pipe.enrichedIssues[i].locations) = 1

\* the locations of locs without those equal to an earlier one
FirstOccurrences(locs) ==
  LET idx == SelectIdx(Len(locs), 1,
               [i \in 1..Len(locs) |-> \A j \in 1..(i - 1) : locs[j] # locs[i]])
  IN [i \in 1..Len(idx) |-> locs[idx[i]]]

\* C15: the eligible findings of one grouping key become exactly one
\* finding; its locations are those of all of them, each once, in the order of
\* first appearance, and its other fields are those of the first of them.
C15_EligibleMergedIntoOne ==
  Grouped =>
    LET raw == pipe.enrichedIssuesRaw
        out == pipe.enrichedIssues
        first == FirstSeen(raw)
    IN \A n \in 1..Len(first) :
         LET it == raw[first[n]]
             same == SelectIdx(Len(raw), 1,
                       [j \in 1..Len(raw) |-> Eligible(raw[j]) /\ KeyOf(raw[j]) = KeyOf(it)])
             merged == SelectIdx(Len(out), 1,
                         [j \in 1..Len(out) |-> Eligible(out[j]) /\ KeyOf(out[j]) = KeyOf(it)])
         IN Eligible(it) =>
              /\ Len(merged) = 1
              /\ out[merged[1]].locations =
                   FirstOccurrences(Concat([j \in 1..Len(same) |-> raw[same[j]].locations]))
              /\ [out[merged[1]] EXCEPT !.locations = <<>>] = [it EXCEPT !.locations = <<>>]

C15_Witness ==
  /\ Grouped
  /\ Len(pipe.enrichedIssuesRaw) = 3
  /\ \A i \in 1..3 : Eligible(pipe.enrichedIssuesRaw[i])
  /\ pipe.enrichedIssuesRaw[1].confidence # pipe.enrichedIssuesRaw[2].confidence
  /\ Len(pipe.enrichedIssues) = 1
  /\ Len(pipe.enrichedIssues[1].locations) = 3
  /\ pipe.enrichedIssues[1].confidence = pipe.enrichedIssuesRaw[1].confidence

\* the place of the first location of locs equal to l, 0 when there is none
FirstIndexOf(locs, l) ==
  LET idx == SelectIdx(Len(locs), 1, [i \in 1..Len(locs) |-> locs[i] = l])
  IN IF idx = <<>> THEN 0 ELSE idx[1]

\* C16: the deduplicated list holds locations of the input in the order of
\* their first occurrence there, and deduplicating it again returns it
\* unchanged.
C16_DedupIdempotentInOrder ==
  /\ pipe.pc \in {"deduped", "rededuped"} =>
       /\ \A i \in 1..Len(pipe.deduped) : FirstIndexOf(pipe.locs, pipe.deduped[i]) # 0
       /\ \A i \in 1..(Len(pipe.deduped) - 1) :
            FirstIndexOf(pipe.locs, pipe.deduped[i]) < FirstIndexOf(pipe.locs, pipe.deduped[i + 1])
  /\ pipe.pc = "rededuped" => pipe.rededuped = pipe.deduped

C16_Witness ==
  /\ pipe.pc = "rededuped"
  /\ Len(pipe.locs) >= 3
  /\ pipe.locs[1] = pipe.locs[3]
  /\ pipe.locs[1] # pipe.locs[2]
  /\ pipe.deduped = <<pipe.locs[1], pipe.locs[2]>>

\* the description has one of the tokens
Mentions(description, tokens) == \E i \in 1..Len(description) : description[i] \in tokens

\* the identifier of the entry the lookup must give, "" for absent
ReferenceLookup(check, description) ==
  CASE check = "controlled-delegatecall" -> "SWC-112"
    [] check = "reentrancy-no-eth" -> "SWC-107"
    [] check = "reentrancy-benign" -> "SWC-107"
    [] check = "low-level-calls" -> "SWC-104"
    [] check = "missing-zero-check" -> ""
    [] OTHER -> IF Mentions(description, {"Integer Overflow", "underflow"}) THEN "SWC-101"
                ELSE IF Mentions(description, {"tx.origin"}) THEN "SWC-115"
                ELSE ""

\* C17: the knowledge lookup gives controlled-delegatecall, the reentrancy
\* checks of its table (reentrancy-no-eth, reentrancy-benign) and
\* low-level-calls their fixed entries and missing-zero-check none, whatever
\* the description says; any other check gets the entry of the phrase its
\* description mentions (integer overflow or underflow, then tx.origin) and
\* none when it mentions neither.
C17_LookupIsReference ==
  pipe.pc = "enriched" =>
    LET expected == ReferenceLookup(pipe.check, pipe.description)
    IN IF expected = "" THEN pipe.swcEntry = <<>>
       ELSE /\ pipe.swcEntry # <<>>
            /\ pipe.swcEntry[1].Id = expected
            /\ pipe.swcEntry[1].Title = SWCTitle(expected)

C17_Witness ==
  /\ pipe.pc = "enriched"
  /\ pipe.check = "missing-zero-check"
  /\ pipe.description = <<"Integer Overflow", "tx.origin">>
  /\ pipe.swcEntry = <<>>

\* a raw string property as it stands in the record, a missing one being
\* the value undefined
Verbatim(p) == IF p = <<>> THEN "undefined" ELSE p[1]

\* C18: normalisation gives one finding for each raw record, in the order of
\* the records, with the record's check, severity and confidence as they
\* stand, also when they are outside the known values.
C18_NormalizationKeepsEveryFinding ==
  Normalized =>
    /\ Len(pipe.enrichedIssuesRaw) = Len(pipe.detectors)
    /\ \A i \in 1..Len(pipe.detectors) :
         /\ pipe.enrichedIssuesRaw[i].check = Verbatim(pipe.detectors[i].check)
         /\ pipe.enrichedIssuesRaw[i].impact = Verbatim(pipe.detectors[i].impact)
         /\ pipe.enrichedIssuesRaw[i].confidence = Verbatim(pipe.detectors[i].confidence)

C18_Witness ==
  /\ pipe.pc = "normalized"
  /\ Len(pipe.enrichedIssuesRaw) = 3
  /\ pipe.detectors[1].impact = <<"Optimization">>
  /\ pipe.enrichedIssuesRaw[1].impact = "Optimization"
  /\ pipe.detectors[2].impact = <<>>
  /\ pipe.detectors[3].impact = <<"High">>

\* the raw element lacks a file, a line
LacksFile(e) == e.source_mapping = <<>> \/ e.source_mapping[1].filename_relative = <<>>

LacksLine(e) ==
  \/ e.source_mapping = <<>>
  \/ e.source_mapping[1].lines = <<>>
  \/ e.source_mapping[1].lines[1] = <<>>

C21_RenderingPassesCountRule ==
  (Rendered /\ \A i \in 1..Len(pipe.enrichedIssues) : pipe.enrichedIssues[i].impact \in Impacts) =>
    \A sev \in Impacts :
      parseCountsFromMarkdown(pipe.md)[sev] = NumberOf(pipe.enrichedIssues, sev)

\* the text has the 'no vulnerabilities found' sentence of the renderer or of
\* the entry point as its only line
IsNoFindingsSentence(md, address) ==
  \/ md = << <<CheckMark, "No vulnerabilities found by Slither for ", address, ".">> >>
  \/ md = << <<CheckMark, "No vulnerabilities found by Slither for this contract (", address, ").">> >>

\* C22: when a finding of the grouped set has the writes-after-call fact, the
\* text the run returns has the sentence 'A state variable is written after
\* an external call.', whichever path produced it and whatever the check of
\* the finding.
C22_ReturnedTextHasSentence ==
  \A r \in Slots :
    (Done(r) /\ NeedsSentence(runs[r].enrichedIssues)) => HasSentence(runs[r].md)

\* C23: for a non-empty finding set the text the run returns shows a finding:
\* it is not the empty text and not the 'no vulnerabilities found' sentence,
\* also when every finding has a severity outside the four.
C23_NonEmptySetShowsAFinding ==
  \A r \in Slots :
    (Done(r) /\ runs[r].enrichedIssues # <<>>) =>
      /\ runs[r].md # EmptyStr
      /\ ~IsNoFindingsSentence(runs[r].md, runs[r].address)
      /\ \E n \in 1..Len(runs[r].md) : IsSubHeading2(runs[r].md[n]) \/ IsSubHeading3(runs[r].md[n])

\* C24: every finding handed to the renderer and the validator has a location
\* list without two equal locations.
C24_LocationsDeduplicated ==
  \A r \in Slots :
    \A i \in 1..Len(runs[r].enrichedIssues) :
      LET locs == runs[r].enrichedIssues[i].locations
      IN \A j \in 1..Len(locs) : \A k \in (j + 1)..Len(locs) : locs[j] # locs[k]

\* C25: the Location Deduplicator drops a location only when an earlier one
\* has the same file, line and element, and keeps no two that agree in all
\* three: every location of the input is in the result, once.
C25_DuplicatesAreEqualLocations ==
  pipe.pc \in {"deduped", "rededuped"} =>
    /\ \A i \in 1..Len(pipe.locs) : \E k \in 1..Len(pipe.deduped) : pipe.deduped[k] = pipe.locs[i]
    /\ \A j \in 1..Len(pipe.deduped) : \A k \in (j + 1)..Len(pipe.deduped) :
         pipe.deduped[j] # pipe.deduped[k]

\* the raw findings i and j ended in one finding of the grouped list
MergedTogether(i, j) ==
  \E g \in 1..Len(pipe.enrichedIssues) :
    /\ Eligible(pipe.enrichedIssues[g])
    /\ \A n \in {i, j} : \A k \in 1..Len(pipe.enrichedIssuesRaw[n].locations) :
         \E m \in 1..Len(pipe.enrichedIssues[g].locations) :
           pipe.enrichedIssues[g].locations[m] = pipe.enrichedIssuesRaw[n].locations[k]

\* the element name of the first location of a finding, empty without one
FirstLocationName(it) == IF it.locations = <<>> THEN <<>> ELSE it.locations[1].element

\* the first non-empty element name among the locations, empty without one
FirstNamedElement(it) ==
  LET named == SelectIdx(Len(it.locations), 1,
                 [k \in 1..Len(it.locations) |-> it.locations[k].element # <<>>])
  IN IF named = <<>> THEN <<>> ELSE it.locations[named[1]].element

\* C26 as stated: two eligible findings are merged exactly when they have
\* the same check and the same element name in their first location, the
\* empty name included.
C26_KeyIsFirstLocationName ==
  Grouped =>
    \A i \in 1..Len(pipe.enrichedIssuesRaw) : \A j \in (i + 1)..Len(pipe.enrichedIssuesRaw) :
      LET a == pipe.enrichedIssuesRaw[i]
          b == pipe.enrichedIssuesRaw[j]
      IN (Eligible(a) /\ Eligible(b)) =>
           (MergedTogether(i, j) <=>
              (a.check = b.check /\ FirstLocationName(a) = FirstLocationName(b)))

\* C26 amended: two eligible findings are merged exactly when they have the
\* same check and the same first non-empty element name among their
\* locations (the empty name when no location has one).
C26_KeyIsFirstNamedElement ==
  Grouped =>
    \A i \in 1..Len(pipe.enrichedIssuesRaw) : \A j \in (i + 1)..Len(pipe.enrichedIssuesRaw) :
      LET a == pipe.enrichedIssuesRaw[i]
          b == pipe.enrichedIssuesRaw[j]
      IN (Eligible(a) /\ Eligible(b)) =>
           (MergedTogether(i, j) <=>
              (a.check = b.check /\ FirstNamedElement(a) = FirstNamedElement(b)))

C26_Witness ==
  /\ Grouped
  /\ Len(pipe.enrichedIssuesRaw) = 3
  /\ \A i \in 1..3 : Eligible(pipe.enrichedIssuesRaw[i])
  /\ FirstLocationName(pipe.enrichedIssuesRaw[1]) = <<>>
  /\ FirstNamedElement(pipe.enrichedIssuesRaw[1]) = <<"yourAddress">>
  /\ FirstLocationName(pipe.enrichedIssuesRaw[2]) = <<"yourAddress">>
  /\ FirstNamedElement(pipe.enrichedIssuesRaw[3]) = <<>>
  /\ MergedTogether(1, 2)
  /\ ~MergedTogether(1, 3)
  /\ Len(pipe.enrichedIssues) = 2

\* the findings of items that are not eligible for grouping, in order
NotEligibleOf(items) ==
  LET idx == SelectIdx(Len(items), 1, [i \in 1..Len(items) |-> ~Eligible(items[i])])
  IN [i \in 1..Len(idx) |-> items[idx[i]]]

FactsOf(description) ==
  [writesAfterCall |->
     Mentions(description, {"State variables written after the call",
                            "state variables written after the call"}),
   mentionsDelegatecall |-> Mentions(description, {"Delegatecall", "delegatecall"}),
   mentionsLowLevelCall |-> Mentions(description, {" call(", ".call("}),
   exactStylePhrase |-> Mentions(description, {"is not in mixedCase", "is not in mixedcase"}),
   mentionsZeroCheck |-> Mentions(description, {"lacks a zero-check on", "zero-check"})]

\* C28: after normalisation and after grouping the facts of every finding
\* are the Fact Deriver's facts of the finding's own description; an absent
\* or empty description has no fact.
C28_FactsOfOwnDescription ==
  /\ Normalized =>
       \A i \in 1..Len(pipe.enrichedIssuesRaw) :
         /\ pipe.enrichedIssuesRaw[i].facts = FactsOf(pipe.enrichedIssuesRaw[i].description)
         /\ pipe.detectors[i].description = <<>> =>
              \A f \in DOMAIN pipe.enrichedIssuesRaw[i].facts : ~pipe.enrichedIssuesRaw[i].facts[f]
  /\ Grouped =>
       \A i \in 1..Len(pipe.enrichedIssues) :
         pipe.enrichedIssues[i].facts = FactsOf(pipe.enrichedIssues[i].description)

C28_Witness ==
  /\ Grouped
  /\ Len(pipe.enrichedIssues) = 3
  /\ pipe.enrichedIssues[1].facts.writesAfterCall
  /\ pipe.enrichedIssues[2].description = <<>>
  /\ ~pipe.enrichedIssues[2].facts.writesAfterCall
  /\ Eligible(pipe.enrichedIssues[3])
  /\ pipe.enrichedIssues[3].facts.mentionsZeroCheck
  /\ Len(pipe.groupInput) = 3

\* the findings that have a block in the text, in the order of their blocks:
\* those of the four severities, severity by severity
ShownFindings(items) ==
  LET fixed == <<"High", "Medium", "Low", "Informational">>
      ofSev(sev) == SelectIdx(Len(items), 1, [i \in 1..Len(items) |-> items[i].impact = sev])
  IN Concat([k \in 1..4 |-> [i \in 1..Len(ofSev(fixed[k])) |-> items[ofSev(fixed[k])[i]]]])

\* the places of the finding sub-headings of md
SubHeadingPlaces(md) == SelectIdx(Len(md), 1, [i \in 1..Len(md) |-> IsSubHeading2(md[i])])

\* the lines of the k-th finding block of md, below its sub-heading
BlockLines(md, k) ==
  LET heads == SubHeadingPlaces(md)
      last == IF k < Len(heads) THEN heads[k + 1] - 1 ELSE Len(md)
  IN [i \in 1..(last - heads[k]) |-> md[heads[k] + i]]

\* the part ':N' or ' (line N)' of a location's line, nothing for an absent one
LineTokens(l, before, after) ==
  IF l.line = <<>> THEN <<>> ELSE before \o NumStr(l.line[1]) \o after

\* C29: a finding block has the single 'label: value (line N)' line exactly
\* when the finding has one location, with that location's element (N/A for
\* one without a name) and line,
\* and the bulleted list exactly when it has more than one, one bullet for each
\* location with its file and line.
C29_SingleLineOrBulletList ==
  Rendered =>
    LET shown == ShownFindings(pipe.enrichedIssues)
    IN /\ Len(SubHeadingPlaces(pipe.md)) = Len(shown)
       /\ \A k \in 1..Len(shown) :
            LET locs == shown[k].locations
                block == BlockLines(pipe.md, k)
                singles == SelectIdx(Len(block), 1,
                             [i \in 1..Len(block) |->
                                Len(block[i]) >= 3 /\ block[i][1] = "- "
                                  /\ block[i][2] \in {"Function", "Element"}])
                bullets == SelectIdx(Len(block), 1,
                             [i \in 1..Len(block) |-> Len(block[i]) >= 1 /\ block[i][1] = "  - "])
                hasList == \E i \in 1..Len(block) : block[i] = <<"- Locations:">>
            IN /\ (Len(locs) = 1) <=> (Len(singles) = 1)
               /\ Len(locs) # 1 => singles = <<>>
               /\ Len(locs) = 1 =>
                    \E label \in {"Function", "Element"} :
                      block[singles[1]] =
                        <<"- ", label, ": '">>
                          \o (IF locs[1].element = <<>> THEN <<"N/A">> ELSE locs[1].element)
                          \o <<"'">>
                          \o LineTokens(locs[1], <<" (line ">>, <<")">>)
               /\ (Len(locs) > 1) <=> hasList
               /\ Len(locs) > 1 =>
                    /\ Len(bullets) = Len(locs)
                    /\ \A i \in 1..Len(locs) :
                         LET start == <<"  - ">> \o locs[i].file \o LineTokens(locs[i], <<":">>, <<>>)
                         IN /\ Len(block[bullets[i]]) >= Len(start)
                            /\ SubSeq(block[bullets[i]], 1, Len(start)) = start

\* the table of titles
TitleTable(check) ==
  CASE check = "controlled-delegatecall" -> "Controlled Delegatecall"
    [] check = "reentrancy-no-eth" -> "Reentrancy (no ETH)"
    [] check = "reentrancy-benign" -> "Reentrancy (benign)"
    [] check = "missing-zero-check" -> "Missing zero-check (address)"
    [] check = "low-level-calls" -> "Low-level calls"
    [] check = "naming-convention" -> "Naming convention"
    [] OTHER -> check

\* C30: the sub-heading of every finding block is the finding's title: the
\* entry of the table for its check, or the check itself when the table has
\* none; the title kept in the normalized finding is that value.
C30_SubHeadingIsResolvedTitle ==
  /\ Normalized =>
       \A i \in 1..Len(pipe.enrichedIssuesRaw) :
         pipe.enrichedIssuesRaw[i].title = TitleTable(pipe.enrichedIssuesRaw[i].check)
  /\ Rendered =>
       LET shown == ShownFindings(pipe.enrichedIssues)
           heads == SubHeadingPlaces(pipe.md)
       IN /\ Len(heads) = Len(shown)
          /\ \A k \in 1..Len(shown) :
               /\ pipe.md[heads[k]] = <<"#", "#", " ", TitleTable(shown[k].check)>>
               /\ shown[k].title = TitleTable(shown[k].check)

C30_Witness ==
  /\ Rendered
  /\ Len(pipe.enrichedIssues) = 3
  /\ pipe.enrichedIssues[1].check = "tx-origin"
  /\ pipe.enrichedIssues[2].check = "reentrancy-benign"
  /\ pipe.enrichedIssues[3].check = "controlled-delegatecall"
  /\ SubHeadingPlaces(pipe.md) # <<>>
  /\ pipe.md[SubHeadingPlaces(pipe.md)[1]] = <<"#", "#", " ", "Controlled Delegatecall">>
  /\ \E n \in 1..Len(pipe.md) : pipe.md[n] = <<"#", "#", " ", "tx-origin">>
  /\ \E n \in 1..Len(pipe.md) : pipe.md[n] = <<"#", "#", " ", "Reentrancy (benign)">>

====
